---- MODULE Spec2Model ----
(***************************************************************************)
(* Relational algebra plan builder (src/algebra/parser.rs) and the lazy    *)
(* tuple streams of the plan nodes it builds; the Keyword conversions of   *)
(* src/data/keyword.rs.                                                    *)
(*                                                                         *)
(* build_relational_expr and the RaBox dispatch are translated from        *)
(* parser.rs.  The operators of crate::algebra::op (Insertion, LimitOp,    *)
(* WhereFilter, DeleteOp, UpdateOp, ...) are not part of parser.rs; their  *)
(* constructors and streams are modelled from the specification text.      *)
(***************************************************************************)
EXTENDS Integers, Sequences, FiniteSets, TLC

VARIABLES
    pair,       \* the parse tree handed to build_relational_expr
    pc,         \* position of the caller: build, then pull
    idx,        \* number of clause fragments the for-loop has consumed
    built,      \* `built: Option<RaBox>` of build_relational_expr
    calls,      \* constructor calls made so far: <<tag, previous node, outcome>>
    ret,        \* what build_relational_expr returned
    storage,    \* the table as seen through the open transaction
    storage0,   \* the table when the transaction handed it to the builder
    iters,      \* per plan node (origin first): the position of its iterator
    pulls,      \* per plan node: how many times next() was called on its stream
    out,        \* the elements the consumer received from the root stream
    writes,     \* the writes Insertion nodes attempted: node, row, outcome
    raised,     \* the first failed element any node produced, if any
    text,       \* the text or bytes handed to a Keyword conversion
    kw,         \* what the conversion returned
    shown,      \* the Display form of the keyword
    back,       \* the keyword read back from its Display form
    kpc         \* position of the caller of the Keyword conversions

vars ==
    <<pair, pc, idx, built, calls, ret, storage, storage0, iters, pulls, out, writes,
      raised, text, kw, shown, back, kpc>>
KwVars == <<text, kw, shown, back, kpc>>
PlanVars ==
    <<pair, pc, idx, built, calls, ret, storage, storage0, iters, pulls, out, writes,
      raised>>

(***************************************************************************)
(* Bounds                                                                  *)
(***************************************************************************)
MaxKey == 2
MaxLit == 2
MaxStages == 2
MaxBuildChain == 2
MaxText == 3

Keys == 1..MaxKey
\* Skip and Take counts run past the number of rows a table can hold
MaxN == MaxKey + 1
Names == {"a", "b"}
Depts == {"x", "y"}

(***************************************************************************)
(* Rows and storage.  A row is a primary key and two value columns.        *)
(***************************************************************************)
Rows == [id : Keys, name : Names, dept : Depts]
NoRow == [id |-> 0, name |-> "-", dept |-> "-"]
Vals == [name : Names, dept : Depts]
Absent == [name |-> "-", dept |-> "-"]
Storages == [Keys -> Vals \cup {Absent}]
EmptyStorage == [k \in Keys |-> Absent]

ValOf(row) == [name |-> row.name, dept |-> row.dept]
RowAt(st, k) == [id |-> k, name |-> st[k].name, dept |-> st[k].dept]
Stored(st, k) == k \in Keys /\ st[k] # Absent

\* point insert/overwrite and point delete of the storage engine
Put(st, row) == [st EXCEPT ![row.id] = ValOf(row)]
Del(st, k) == [st EXCEPT ![k] = Absent]

(***************************************************************************)
(* Clause tags: the NAME_* constants of crate::algebra::op, as the tests   *)
(* and the specification spell them.                                       *)
(***************************************************************************)
NAME_INSERTION == "Insert"
NAME_UPSERT == "Upsert"
NAME_TAGGED_INSERTION == "InsertTagged"
NAME_TAGGED_UPSERT == "UpsertTagged"
NAME_RELATION_FROM_VALUES == "Values"
NAME_FROM == "From"
NAME_WHERE == "Where"
NAME_SELECT == "Select"
NAME_TAKE == "Take"
NAME_SKIP == "Skip"
NAME_SORT == "Sort"
NAME_INNER_JOIN == "InnerJoin"
NAME_LEFT_JOIN == "LeftJoin"
NAME_RIGHT_JOIN == "RightJoin"
NAME_OUTER_JOIN == "OuterJoin"
NAME_CONCAT == "Concat"
NAME_UNION == "Union"
NAME_INTERSECT == "Intersect"
NAME_DIFF == "Diff"
NAME_SYM_DIFF == "SymDiff"
NAME_GROUP == "Group"
NAME_DELETE == "Delete"
NAME_UPDATE == "Update"
NAME_WALK == "Walk"

RecognizedTags ==
    { NAME_INSERTION, NAME_UPSERT, NAME_TAGGED_INSERTION, NAME_TAGGED_UPSERT,
      NAME_RELATION_FROM_VALUES, NAME_FROM, NAME_WHERE, NAME_SELECT, NAME_TAKE,
      NAME_SKIP, NAME_SORT, NAME_INNER_JOIN, NAME_LEFT_JOIN, NAME_RIGHT_JOIN,
      NAME_OUTER_JOIN, NAME_CONCAT, NAME_UNION, NAME_INTERSECT, NAME_DIFF,
      NAME_SYM_DIFF, NAME_GROUP, NAME_DELETE, NAME_UPDATE, NAME_WALK }

\* a tag the grammar could hand over that no match arm names
UnknownTag == "Frobnicate"

(***************************************************************************)
(* Parse tree.  A clause fragment is its tag and its remaining arguments:  *)
(* the count of Take/Skip, the predicate of Where, the literal rows of     *)
(* Values, the template of Update.  argerr is the fault, if any, that the  *)
(* clause's constructor finds in the shape of those arguments.             *)
(***************************************************************************)
Preds == {"id>=2", "name=a"}
NoPred == "true"
\* a predicate over an aggregate, as the last query of parse_ra writes it
AggPred == "count[]<3"
IsAggregate(pred) == pred = AggPred
Keep == "keep"
Templates == [name : Names \cup {Keep}, dept : Depts \cup {Keep}]
NoTmpl == [name |-> Keep, dept |-> Keep]

Clause(tag, argerr, n, pred, lit, tmpl) ==
    [tag |-> tag, argerr |-> argerr, n |-> n, pred |-> pred, lit |-> lit, tmpl |-> tmpl]

Plain(tag) == Clause(tag, "", 0, NoPred, <<>>, NoTmpl)
BadArgs(tag) == Clause(tag, "NotEnoughArguments", 0, NoPred, <<>>, NoTmpl)

\* the parse tree: its rule, the rule of its first child (read only under an
\* ra_arg wrapper) and the clause fragments of the expression
Pair(rule, inner_rule, clauses) ==
    [rule |-> rule, inner_rule |-> inner_rule, clauses |-> clauses]

(***************************************************************************)
(* Plan nodes.  `source` is the wrapped node; NoNode stands for None.      *)
(***************************************************************************)
NoNode == [kind |-> "None"]

Node(kind, flag, source, c) ==
    [kind |-> kind, flag |-> flag, source |-> source,
     n |-> c.n, pred |-> c.pred, lit |-> c.lit, tmpl |-> c.tmpl]

\* RaBox::sources for the single-source and origin variants
Sources(node) ==
    CASE node.kind = "None" -> <<>>
      [] node.kind \in {"TaggedInsertion", "FromValues", "WalkOp", "TableScan"} -> <<>>
      [] OTHER -> IF node.source = NoNode THEN <<>> ELSE <<node.source>>

RECURSIVE Flatten(_)
\* the nodes of a pipeline, origin first, root last
Flatten(node) ==
    IF node.kind = "None" THEN <<>>
    ELSE IF Sources(node) = <<>> THEN <<node>>
    ELSE Append(Flatten(node.source), node)

RECURSIVE Identity(_)
\* the single physical table a node maps onto, if any
Identity(node) ==
    CASE node.kind = "TableScan" -> TRUE
      [] node.kind \in {"WhereFilter", "LimitOp"} -> Identity(node.source)
      [] OTHER -> FALSE

(***************************************************************************)
(* build_relational_expr                                                   *)
(***************************************************************************)
Arm(variant, flag) == [variant |-> variant, flag |-> flag]
Unimplemented == Arm("unimplemented", "")

\* the match on pair.as_str(): the variant built and the flag or name passed on
MatchArms(tag) ==
    CASE tag = NAME_INSERTION -> Arm("Insertion", "false")
      [] tag = NAME_UPSERT -> Arm("Insertion", "true")
      [] tag = NAME_TAGGED_INSERTION -> Arm("TaggedInsertion", "false")
      [] tag = NAME_TAGGED_UPSERT -> Arm("TaggedInsertion", "true")
      [] tag = NAME_RELATION_FROM_VALUES -> Arm("FromValues", "")
      [] tag = NAME_FROM -> Arm("TableScan", "")
      [] tag = NAME_WHERE -> Arm("WhereFilter", "")
      [] tag = NAME_SELECT -> Arm("SelectOp", "")
      [] tag \in {NAME_TAKE, NAME_SKIP} -> Arm("LimitOp", tag)
      [] tag = NAME_SORT -> Arm("SortOp", "")
      [] tag \in {NAME_INNER_JOIN, NAME_LEFT_JOIN, NAME_RIGHT_JOIN, NAME_OUTER_JOIN}
            -> Arm("MergeJoin", tag)
      [] tag = NAME_CONCAT -> Arm("ConcatOp", "")
      [] tag = NAME_UNION -> Arm("UnionOp", "")
      [] tag = NAME_INTERSECT -> Arm("IntersectOp", "")
      [] tag = NAME_DIFF -> Arm("DiffOp", "")
      [] tag = NAME_SYM_DIFF -> Arm("SymDiffOp", "")
      [] tag = NAME_GROUP -> Arm("GroupOp", "")
      [] tag = NAME_DELETE -> Arm("DeleteOp", "")
      [] tag = NAME_UPDATE -> Arm("UpdateOp", "")
      [] tag = NAME_WALK -> Arm("WalkOp", "")
      [] OTHER -> Unimplemented

\* slip: the Insert arm passes `true`, as the Upsert arm does
MatchArmInsertUpserts(tag) ==
    IF tag = NAME_INSERTION THEN Arm("Insertion", "true") ELSE MatchArms(tag)

\* slip: the Take|Skip arm passes NAME_TAKE instead of the matched name
MatchArmLimitTakes(tag) ==
    IF tag \in {NAME_TAKE, NAME_SKIP} THEN Arm("LimitOp", NAME_TAKE) ELSE MatchArms(tag)

\* slip: the Take|Skip arm passes NAME_SKIP instead of the matched name
MatchArmLimitSkips(tag) ==
    IF tag \in {NAME_TAKE, NAME_SKIP} THEN Arm("LimitOp", NAME_SKIP) ELSE MatchArms(tag)

\* slip: the Delete arm builds an UpdateOp
MatchArmDeleteUpdates(tag) ==
    IF tag = NAME_DELETE THEN Arm("UpdateOp", "") ELSE MatchArms(tag)

\* slip: the Update arm builds a DeleteOp
MatchArmUpdateDeletes(tag) ==
    IF tag = NAME_UPDATE THEN Arm("DeleteOp", "") ELSE MatchArms(tag)

\* `match pair.as_str()` of the loop body
\* slip: the From arm hands the previous node to a single-source constructor
MatchArmFromFilters(tag) ==
    IF tag = NAME_FROM THEN Arm("WhereFilter", "") ELSE MatchArms(tag)

MatchArm(tag) == MatchArms(tag)

Ok(node) == [status |-> "ok", err |-> "", node |-> node]
Err(e) == [status |-> "err", err |-> e, node |-> NoNode]
NoResult == [status |-> "none", err |-> "", node |-> NoNode]

OriginVariants == {"TaggedInsertion", "FromValues", "TableScan", "WalkOp"}
SingleSourceVariants ==
    {"Insertion", "WhereFilter", "SelectOp", "LimitOp", "SortOp", "GroupOp",
     "DeleteOp", "UpdateOp"}

\* X::build(ctx, prev, args, ..): validates the arguments and wraps prev
\* parse_ra builds From(e:Employee).Where(count[] < 3) with `?` and pulls it
AggregateAllowed(prev) == prev.kind = "TableScan"

Construct(arm, prev, c) ==
    IF c.argerr # "" THEN Err(c.argerr)
    ELSE IF arm.variant = "WhereFilter" /\ prev # NoNode
            /\ IsAggregate(c.pred) /\ ~AggregateAllowed(prev) /\ prev.kind # "GroupOp"
        THEN Err("AggregateFnNotAllowed")
    ELSE IF arm.variant \in OriginVariants THEN Ok(Node(arm.variant, arm.flag, NoNode, c))
    ELSE IF arm.variant \in SingleSourceVariants /\ prev = NoNode
        THEN Err("NotEnoughArguments")
    ELSE IF arm.variant \in {"DeleteOp", "UpdateOp"} /\ ~Identity(prev)
        THEN Err("WrongTableKind")
    ELSE Ok(Node(arm.variant, arm.flag, prev, c))

\* if pair.as_rule() == Rule::ra_arg { pair = pair.into_inner().next().unwrap() }
Unwrap(p) ==
    IF p.rule = "ra_arg" THEN Pair(p.inner_rule, p.inner_rule, p.clauses) ELSE p

\* assert_rule(&pair, Rule::ra_expr, ..)
assert_rule(p, rule) ==
    IF p.rule = rule THEN Ok(NoNode) ELSE Err("WrongArgumentType")

(***************************************************************************)
(* Tuple streams.  An element of a stream is a row, a failure, or the end. *)
(* One call of next() on a node is one evaluation of RaBoxNext: it returns *)
(* the element and the iterator positions, pull counts and storage that    *)
(* the call leaves behind.                                                 *)
(***************************************************************************)
Elem(row) == [tag |-> "ok", row |-> row, err |-> ""]
Failed(e, row) == [tag |-> "err", row |-> row, err |-> e]
End == [tag |-> "end", row |-> NoRow, err |-> ""]
NoElem == [tag |-> "none", row |-> NoRow, err |-> ""]

Holds(pred, row) ==
    CASE pred = "id>=2" -> row.id >= 2
      [] pred = "name=a" -> row.name = "a"
      [] OTHER -> TRUE

\* the row a template makes of a row: named fields replaced, the rest copied
ApplyTemplate(t, row) ==
    [id |-> row.id,
     name |-> IF t.name = Keep THEN row.name ELSE t.name,
     dept |-> IF t.dept = Keep THEN row.dept ELSE t.dept]

Yield(st, e) == [st EXCEPT !.res = e]
\* a node produces a failed element of its own
Raise(st, e) ==
    [st EXCEPT !.res = e, !.raised = IF @ = NoElem THEN e ELSE @]

Write(d, row, ok) == [d |-> d, row |-> row, ok |-> ok]

RECURSIVE RaBoxNext(_, _, _)
RECURSIVE WhereLoop(_, _, _)
RECURSIVE SkipLoop(_, _, _)

\* TableScan: prefix-ordered iteration over the stored rows
TableScanNext(P, d, st) ==
    LET ahead == {k \in Keys : k > st.iters[d] /\ Stored(st.storage, k)}
    IN IF ahead = {} THEN Yield(st, End)
       ELSE LET k == CHOOSE x \in ahead : \A y \in ahead : x <= y
            IN Yield([st EXCEPT !.iters[d] = k], Elem(RowAt(st.storage, k)))

\* RelationFromValues: the literal rows in order
FromValuesNext(P, d, st) ==
    IF st.iters[d] < Len(P[d].lit)
    THEN Yield([st EXCEPT !.iters[d] = @ + 1], Elem(P[d].lit[st.iters[d] + 1]))
    ELSE Yield(st, End)

\* Insertion: writes each source row; plain insertion fails on a stored key
InsertionNext(P, d, st) ==
    LET s1 == RaBoxNext(P, d - 1, st)
        r == s1.res
    IN IF r.tag # "ok" THEN s1
       ELSE IF P[d].flag = "false" /\ Stored(s1.storage, r.row.id)
            THEN Raise([s1 EXCEPT !.writes = Append(@, Write(d, r.row, FALSE))],
                       Failed("KeyConflict", r.row))
       ELSE [s1 EXCEPT !.storage = Put(@, r.row),
                       !.writes = Append(@, Write(d, r.row, TRUE))]

\* WhereFilter: pulls until a row satisfies the predicate
WhereLoop(P, d, st) ==
    LET s1 == RaBoxNext(P, d - 1, st)
    IN IF s1.res.tag = "ok" /\ ~Holds(P[d].pred, s1.res.row)
       THEN WhereLoop(P, d, s1)
       ELSE s1

\* LimitOp built from Skip: drops the first n rows, then passes through
SkipLoop(P, d, st) ==
    LET s1 == RaBoxNext(P, d - 1, st)
    IN IF s1.res.tag = "ok" /\ st.iters[d] < P[d].n
       THEN SkipLoop(P, d, [s1 EXCEPT !.iters[d] = @ + 1])
       ELSE s1

\* LimitOp built from Take: at most n elements, then no further pull
TakeNext(P, d, st) ==
    IF st.iters[d] >= P[d].n THEN Yield(st, End)
    ELSE RaBoxNext(P, d - 1, [st EXCEPT !.iters[d] = @ + 1])

LimitNext(P, d, st) ==
    IF P[d].flag = NAME_SKIP THEN SkipLoop(P, d, st) ELSE TakeNext(P, d, st)

\* DeleteOp: removes each row reaching it and emits it
DeleteNext(P, d, st) ==
    LET s1 == RaBoxNext(P, d - 1, st)
        r == s1.res
    IN IF r.tag # "ok" THEN s1
       ELSE IF ~Stored(s1.storage, r.row.id)
            THEN Raise(s1, Failed("ValueNotFound", r.row))
       ELSE [s1 EXCEPT !.storage = Del(@, r.row.id)]

\* UpdateOp: rewrites the template's fields and emits the new row
UpdateNext(P, d, st) ==
    LET s1 == RaBoxNext(P, d - 1, st)
        r == s1.res
        new == ApplyTemplate(P[d].tmpl, r.row)
    IN IF r.tag # "ok" THEN s1
       ELSE IF ~Stored(s1.storage, r.row.id)
            THEN Raise(s1, Failed("ValueNotFound", r.row))
       ELSE Yield([s1 EXCEPT !.storage = Put(@, new)], Elem(new))

\* slip: a filter that treats a failed source element as a row to drop
RECURSIVE WhereLoopLenient(_, _, _)
WhereLoopLenient(P, d, st) ==
    LET s1 == RaBoxNext(P, d - 1, st)
    IN IF s1.res.tag = "err" \/ (s1.res.tag = "ok" /\ ~Holds(P[d].pred, s1.res.row))
       THEN WhereLoopLenient(P, d, s1)
       ELSE s1

IterArmsLenient(P, d, st) ==
    CASE P[d].kind = "Insertion" -> InsertionNext(P, d, st)
      [] P[d].kind = "FromValues" -> FromValuesNext(P, d, st)
      [] P[d].kind = "TableScan" -> TableScanNext(P, d, st)
      [] P[d].kind = "WhereFilter" -> WhereLoopLenient(P, d, st)
      [] P[d].kind = "LimitOp" -> LimitNext(P, d, st)
      [] P[d].kind = "DeleteOp" -> DeleteNext(P, d, st)
      [] P[d].kind = "UpdateOp" -> UpdateNext(P, d, st)

\* slip: the LimitOp arm hands back the stream of the node's source
IterArmsLimitIsSource(P, d, st) ==
    CASE P[d].kind = "Insertion" -> InsertionNext(P, d, st)
      [] P[d].kind = "FromValues" -> FromValuesNext(P, d, st)
      [] P[d].kind = "TableScan" -> TableScanNext(P, d, st)
      [] P[d].kind = "WhereFilter" -> WhereLoop(P, d, st)
      [] P[d].kind = "LimitOp" -> RaBoxNext(P, d - 1, st)
      [] P[d].kind = "DeleteOp" -> DeleteNext(P, d, st)
      [] P[d].kind = "UpdateOp" -> UpdateNext(P, d, st)

ExecVariants ==
    {"Insertion", "FromValues", "TableScan", "WhereFilter", "LimitOp", "DeleteOp",
     "UpdateOp"}

\* the match of RaBox::iter over the variants the model runs
IterArms(P, d, st) ==
    CASE P[d].kind = "Insertion" -> InsertionNext(P, d, st)
      [] P[d].kind = "FromValues" -> FromValuesNext(P, d, st)
      [] P[d].kind = "TableScan" -> TableScanNext(P, d, st)
      [] P[d].kind = "WhereFilter" -> WhereLoop(P, d, st)
      [] P[d].kind = "LimitOp" -> LimitNext(P, d, st)
      [] P[d].kind = "DeleteOp" -> DeleteNext(P, d, st)
      [] P[d].kind = "UpdateOp" -> UpdateNext(P, d, st)

\* next() on the stream RaBox::iter returned for node d
RaBoxNext(P, d, st) == IterArms(P, d, [st EXCEPT !.pulls[d] = @ + 1])

Executable(node) ==
    LET P == Flatten(node)
    IN \A d \in 1..Len(P) : P[d].kind \in ExecVariants /\ ~IsAggregate(P[d].pred)

RECURSIVE DrainLoop(_, _)
\* pulls the root stream until it ends or fails
DrainLoop(P, st) ==
    LET s1 == RaBoxNext(P, Len(P), st)
    IN IF s1.res.tag = "ok" THEN DrainLoop(P, s1) ELSE s1

Fresh(P, st) ==
    [iters |-> [d \in 1..Len(P) |-> 0], pulls |-> [d \in 1..Len(P) |-> 0],
     storage |-> st, writes |-> <<>>, res |-> NoElem, raised |-> NoElem]

RECURSIVE DrainRows(_, _)
\* the rows a pipeline yields when pulled until it ends or fails
DrainRows(P, st) ==
    LET s1 == RaBoxNext(P, Len(P), st)
    IN IF s1.res.tag = "ok" THEN <<s1.res.row>> \o DrainRows(P, s1) ELSE <<>>

RECURSIVE ScanFrom(_, _)
ScanFrom(P, st) ==
    LET s1 == RaBoxNext(P, 1, st)
    IN IF s1.res.tag = "ok" THEN <<s1.res.row>> \o ScanFrom(P, s1) ELSE <<>>

\* the rows From(t) yields when pulled to completion over table contents st
ScanAll(st) ==
    LET P == <<Node("TableScan", "", NoNode, Plain(NAME_FROM))>>
    IN ScanFrom(P, Fresh(P, st))

(***************************************************************************)
(* build_relational_expr: the steps of the caller                          *)
(***************************************************************************)
ExecVars == <<storage, storage0, iters, pulls, out, writes, raised>>

\* entry of build_relational_expr up to `let mut built = None`
BuildEnter ==
    /\ pc = "start"
    /\ LET p == Unwrap(pair)
           a == assert_rule(p, "ra_expr")
       IN IF a.status = "ok"
          THEN /\ pc' = "loop"
               /\ ret' = ret
          ELSE /\ pc' = "returned"
               /\ ret' = Err(a.err)
    /\ built' = NoNode
    /\ idx' = 0
    /\ UNCHANGED <<pair, calls, ExecVars>>
    /\ UNCHANGED KwVars

\* slip: a failed constructor is skipped instead of returned with `?`
BuildClauseSkipsErr ==
    /\ pc = "loop"
    /\ idx < Len(pair.clauses)
    /\ LET c == pair.clauses[idx + 1]
           arm == MatchArm(c.tag)
           r == Construct(arm, built, c)
       IN IF arm = Unimplemented
          THEN /\ pc' = "panicked"
               /\ built' = NoNode
               /\ UNCHANGED <<idx, calls, ret>>
          ELSE /\ calls' = Append(calls, [tag |-> c.tag, prev |-> built, res |-> r])
               /\ idx' = idx + 1
               /\ built' = IF r.status = "ok" THEN r.node ELSE built
               /\ UNCHANGED <<pc, ret>>
    /\ UNCHANGED <<pair, ExecVars>>
    /\ UNCHANGED KwVars

\* slip: every constructor is given None instead of the node built so far
BuildClauseNoPrev ==
    /\ pc = "loop"
    /\ idx < Len(pair.clauses)
    /\ LET c == pair.clauses[idx + 1]
           arm == MatchArm(c.tag)
           r == Construct(arm, NoNode, c)
       IN IF arm = Unimplemented
          THEN /\ pc' = "panicked"
               /\ built' = NoNode
               /\ UNCHANGED <<idx, calls, ret>>
          ELSE /\ calls' = Append(calls, [tag |-> c.tag, prev |-> NoNode, res |-> r])
               /\ idx' = idx + 1
               /\ IF r.status = "ok"
                  THEN /\ built' = r.node
                       /\ UNCHANGED <<pc, ret>>
                  ELSE /\ built' = NoNode
                       /\ ret' = r
                       /\ pc' = "returned"
    /\ UNCHANGED <<pair, ExecVars>>
    /\ UNCHANGED KwVars

\* slip: the default arm returns an error value instead of unimplemented!()
BuildClauseErrOnUnknown ==
    /\ pc = "loop"
    /\ idx < Len(pair.clauses)
    /\ LET c == pair.clauses[idx + 1]
           arm == MatchArm(c.tag)
           r == Construct(arm, built, c)
       IN IF arm = Unimplemented
          THEN /\ pc' = "returned"
               /\ ret' = Err("Parse")
               /\ built' = NoNode
               /\ UNCHANGED <<idx, calls>>
          ELSE /\ calls' = Append(calls, [tag |-> c.tag, prev |-> built, res |-> r])
               /\ idx' = idx + 1
               /\ IF r.status = "ok"
                  THEN /\ built' = r.node
                       /\ UNCHANGED <<pc, ret>>
                  ELSE /\ built' = NoNode
                       /\ ret' = r
                       /\ pc' = "returned"
    /\ UNCHANGED <<pair, ExecVars>>
    /\ UNCHANGED KwVars

\* one iteration of `for pair in pair.into_inner()`
BuildClause ==
    /\ pc = "loop"
    /\ idx < Len(pair.clauses)
    /\ LET c == pair.clauses[idx + 1]
           arm == MatchArm(c.tag)
           r == Construct(arm, built, c)
       IN IF arm = Unimplemented
          THEN /\ pc' = "panicked"
               /\ built' = NoNode
               /\ UNCHANGED <<idx, calls, ret>>
          ELSE /\ calls' = Append(calls, [tag |-> c.tag, prev |-> built, res |-> r])
               /\ idx' = idx + 1
               /\ IF r.status = "ok"
                  THEN /\ built' = r.node
                       /\ UNCHANGED <<pc, ret>>
                  ELSE /\ built' = NoNode
                       /\ ret' = r
                       /\ pc' = "returned"
    /\ UNCHANGED <<pair, ExecVars>>
    /\ UNCHANGED KwVars

\* slip: the builder runs the tree it built before returning it
BuildReturnEager ==
    /\ pc = "loop"
    /\ idx = Len(pair.clauses)
    /\ IF built = NoNode
       THEN /\ pc' = "panicked"
            /\ ret' = ret
            /\ storage' = storage
       ELSE /\ pc' = "returned"
            /\ ret' = Ok(built)
            /\ storage' = IF Executable(built)
                          THEN DrainLoop(Flatten(built), Fresh(Flatten(built), storage)).storage
                          ELSE storage
    /\ built' = NoNode
    /\ UNCHANGED <<pair, idx, calls, storage0, iters, pulls, out, writes, raised>>
    /\ UNCHANGED KwVars

\* Ok(built.unwrap())
BuildReturn ==
    /\ pc = "loop"
    /\ idx = Len(pair.clauses)
    /\ IF built = NoNode
       THEN /\ pc' = "panicked"
            /\ ret' = ret
       ELSE /\ pc' = "returned"
            /\ ret' = Ok(built)
    /\ built' = NoNode
    /\ UNCHANGED <<pair, idx, calls, ExecVars>>
    /\ UNCHANGED KwVars

Plan == Flatten(ret.node)
Root == Len(Plan)

\* the caller obtains the root stream: ra.iter()
Open ==
    /\ pc = "returned"
    /\ ret.status = "ok"
    /\ Executable(ret.node)
    /\ pc' = "running"
    /\ iters' = [d \in 1..Root |-> 0]
    /\ pulls' = [d \in 1..Root |-> 0]
    /\ UNCHANGED <<pair, idx, built, calls, ret, storage, storage0, out, writes, raised>>
    /\ UNCHANGED KwVars

\* the consumer pulls one element from the root stream
Pull ==
    /\ pc = "running"
    /\ LET s == RaBoxNext(Plan, Root,
                   [iters |-> iters, pulls |-> pulls, storage |-> storage,
                    writes |-> writes, res |-> NoElem, raised |-> raised])
       IN /\ iters' = s.iters
          /\ pulls' = s.pulls
          /\ storage' = s.storage
          /\ raised' = s.raised
          /\ writes' = s.writes
          /\ out' = IF s.res.tag = "end" THEN out ELSE Append(out, s.res)
          /\ pc' = CASE s.res.tag = "end" -> "exhausted"
                     [] s.res.tag = "err" -> "failed"
                     [] OTHER -> "running"
    /\ UNCHANGED <<pair, idx, built, calls, ret, storage0>>
    /\ UNCHANGED KwVars

\* the consumer stops iterating early
Stop ==
    /\ pc = "running"
    /\ pc' = "stopped"
    /\ UNCHANGED <<pair, idx, built, calls, ret, ExecVars>>
    /\ UNCHANGED KwVars

Next == BuildEnter \/ BuildClause \/ BuildReturn \/ Open \/ Pull \/ Stop

(***************************************************************************)
(* Keyword (src/data/keyword.rs).  A string is a sequence of characters;   *)
(* a byte slice may also hold a byte that is no UTF-8.                     *)
(***************************************************************************)
Sigil == ":"
Chars == {Sigil, "a", "_"}
InvalidByte == "0xFF"
Bytes == Chars \cup {InvalidByte}

Keyword(s) == [status |-> "ok", text |-> s, err |-> ""]
KeywordErr(e) == [status |-> "err", text |-> <<>>, err |-> e]
NoKeyword == [status |-> "none", text |-> <<>>, err |-> ""]

StartsWith(s, c) == Len(s) > 0 /\ s[1] = c
\* str::strip_prefix(':').unwrap_or(value)
StripPrefix(s) == IF StartsWith(s, Sigil) THEN Tail(s) ELSE s

\* slip: the text is stored as given
KeywordFromKeepsSigil(s) == Keyword(s)
RECURSIVE TrimStart(_)
TrimStart(s) == IF StartsWith(s, Sigil) THEN TrimStart(Tail(s)) ELSE s
\* slip: trim_start_matches(':') in place of strip_prefix(':')
KeywordFromTrimsAll(s) == Keyword(TrimStart(s))

\* impl From<&str> for Keyword
KeywordFrom(s) == Keyword(StripPrefix(s))

FromUtf8Ok(bs) == \A i \in 1..Len(bs) : bs[i] # InvalidByte
\* impl TryFrom<&[u8]> for Keyword
KeywordTryFrom(bs) == IF FromUtf8Ok(bs) THEN KeywordFrom(bs) ELSE KeywordErr("Utf8")

\* impl Display for Keyword: write!(f, ":{}", self.0)
Display(k) == <<Sigil>> \o k.text

\* a caller holding a &str converts it
FromStr ==
    /\ kpc = "text"
    /\ FromUtf8Ok(text)
    /\ kw' = KeywordFrom(text)
    /\ kpc' = "converted"
    /\ UNCHANGED <<text, shown, back, PlanVars>>

\* a caller holding bytes converts them
TryFromBytes ==
    /\ kpc = "text"
    /\ kw' = KeywordTryFrom(text)
    /\ kpc' = IF kw'.status = "ok" THEN "converted" ELSE "rejected"
    /\ UNCHANGED <<text, shown, back, PlanVars>>

\* a keyword made from its stored text as it is: the derived Deserialize,
\* or Keyword(..) written within the crate
Deserialize ==
    /\ kpc = "text"
    /\ FromUtf8Ok(text)
    /\ kw' = Keyword(text)
    /\ kpc' = "deserialized"
    /\ UNCHANGED <<text, shown, back, PlanVars>>

Format ==
    /\ kpc \in {"converted", "deserialized"}
    /\ shown' = Display(kw)
    /\ kpc' = "shown"
    /\ UNCHANGED <<text, kw, back, PlanVars>>

Reparse ==
    /\ kpc = "shown"
    /\ back' = KeywordFrom(shown)
    /\ kpc' = "reparsed"
    /\ UNCHANGED <<text, kw, shown, PlanVars>>

KeywordNext == FromStr \/ TryFromBytes \/ Deserialize \/ Format \/ Reparse

(***************************************************************************)
(* Inputs                                                                  *)
(***************************************************************************)
SeqsUpTo(S, n) == UNION {[1..m -> S] : m \in 0..n}

\* no Keyword conversion under way
KeywordIdle ==
    /\ text = <<>>
    /\ kw = NoKeyword
    /\ shown = <<>>
    /\ back = NoKeyword
    /\ kpc = "idle"

InitPlan(pairs, storages, at) ==
    /\ pair \in pairs
    /\ storage \in storages
    /\ storage0 = storage
    /\ pc = at
    /\ idx = 0
    /\ built = NoNode
    /\ calls = <<>>
    /\ ret = NoResult
    /\ iters = <<>>
    /\ pulls = <<>>
    /\ out = <<>>
    /\ writes = <<>>
    /\ raised = NoElem

InitWith(pairs, storages) == InitPlan(pairs, storages, "start") /\ KeywordIdle

Expr(clauses) == Pair("ra_expr", "ra_expr", clauses)

WhereC(p) == Clause(NAME_WHERE, "", 0, p, <<>>, NoTmpl)
SkipC(a) == Clause(NAME_SKIP, "", a, NoPred, <<>>, NoTmpl)
TakeC(b) == Clause(NAME_TAKE, "", b, NoPred, <<>>, NoTmpl)
UpdateC(t) == Clause(NAME_UPDATE, "", 0, NoPred, <<>>, t)
ValuesC(lit) == Clause(NAME_RELATION_FROM_VALUES, "", 0, NoPred, lit, NoTmpl)

\* any chain of tags, recognized or not, at most one of them with faulty
\* arguments; an ill-ruled tree is rejected before its clauses are read
AllTags == RecognizedTags \cup {UnknownTag}
Faulty(cs) == {i \in 1..Len(cs) : cs[i].argerr # ""}
BuildClauses ==
    {Plain(t) : t \in AllTags} \cup {BadArgs(t) : t \in AllTags} \cup {WhereC(AggPred)}
BuildChains == {cs \in SeqsUpTo(BuildClauses, MaxBuildChain) : Cardinality(Faulty(cs)) <= 1}
BuildPairs ==
    {Pair(r, "ra_expr", cs) : r \in {"ra_expr", "ra_arg"}, cs \in BuildChains}
        \cup {Pair("expr", "expr", <<>>), Pair("ra_arg", "expr", <<>>)}

\* Values(lit) followed by Insert and Upsert clauses, a filter or a skip, on
\* a fresh table; the literal rows differ in key and name
LitRows == {r \in Rows : r.dept = "x"}
WriteStages ==
    {Plain(NAME_INSERTION), Plain(NAME_UPSERT), WhereC("name=a"), SkipC(1)}
WritePairs ==
    {Expr(<<ValuesC(lit)>> \o ws) :
        lit \in SeqsUpTo(LitRows, MaxLit), ws \in SeqsUpTo(WriteStages, MaxStages)}

\* From(t) followed by Skip, Take and Delete clauses; the table holds any
\* subset of the keys
LimitStages == {SkipC(a) : a \in 0..MaxN} \cup {TakeC(b) : b \in 0..MaxN}
                   \cup {Plain(NAME_DELETE)}
LimitPairs == {Expr(<<Plain(NAME_FROM)>> \o ss) : ss \in SeqsUpTo(LimitStages, MaxStages)}
LimitStorages == [Keys -> {[name |-> "a", dept |-> "x"], Absent}]

\* From(t) followed by filters, mutations and limits; the table holds any
\* subset of the keys, each row one of two values
PipeTemplates == {[name |-> "b", dept |-> Keep], [name |-> Keep, dept |-> "y"]}
PipeStages ==
    {WhereC(p) : p \in Preds} \cup {UpdateC(t) : t \in PipeTemplates}
        \cup {Plain(NAME_DELETE), Plain(NAME_INSERTION), Plain(NAME_UPSERT),
              SkipC(1), TakeC(1)}
PipePairs == {Expr(<<Plain(NAME_FROM)>> \o ss) : ss \in SeqsUpTo(PipeStages, MaxStages)}
PipeStorages ==
    [Keys -> {[name |-> "a", dept |-> "x"], [name |-> "b", dept |-> "y"], Absent}]

InitBuild == InitWith(BuildPairs, {EmptyStorage})
InitWrite == InitWith(WritePairs, {EmptyStorage})
InitLimit == InitWith(LimitPairs, LimitStorages)
InitPipe == InitWith(PipePairs, PipeStorages)

SpecBuild == InitBuild /\ [][Next]_vars
SpecWrite == InitWrite /\ [][Next]_vars
SpecLimit == InitLimit /\ [][Next]_vars
SpecPipe == InitPipe /\ [][Next]_vars

(***************************************************************************)
(* Properties                                                              *)
(***************************************************************************)
MutationVariants == {"Insertion", "DeleteOp", "UpdateOp"}
HasMutation(node) ==
    \E d \in 1..Len(Flatten(node)) : Flatten(node)[d].kind \in MutationVariants

RECURSIVE Replay(_, _)
\* the table after the first i logged writes, by the rule the claim states
Replay(log, i) ==
    IF i = 0 THEN storage0
    ELSE IF log[i].ok THEN Put(Replay(log, i - 1), log[i].row)
    ELSE Replay(log, i - 1)

TagOfWrite(w) == pair.clauses[w.d].tag
LastOk(k) ==
    LET ws == {i \in 1..Len(writes) : writes[i].ok /\ writes[i].row.id = k}
    IN IF ws = {} THEN 0 ELSE CHOOSE i \in ws : \A j \in ws : j <= i

\* C1: in any sequence of Insert and Upsert writes to the table, a plain
\* Insert of a row whose key is stored fails with KeyConflict, an Upsert of
\* such a row succeeds, and a scan returns exactly one row per key written,
\* holding the last successfully written value.
C1_InsertUpsertScan ==
    /\ \A i \in 1..Len(writes) :
        LET w == writes[i]
            was == Stored(Replay(writes, i - 1), w.row.id)
        IN /\ TagOfWrite(w) \in {NAME_INSERTION, NAME_UPSERT}
           /\ (TagOfWrite(w) = NAME_INSERTION /\ was) =>
                 /\ ~w.ok
                 /\ i = Len(writes)
                 /\ pc = "failed"
                 /\ out[Len(out)] = Failed("KeyConflict", w.row)
           /\ (TagOfWrite(w) = NAME_UPSERT) => w.ok
    /\ LET scan == ScanAll(storage)
       IN \A k \in Keys :
            LET hits == {j \in 1..Len(scan) : scan[j].id = k}
            IN IF LastOk(k) = 0
               THEN hits = {}
               ELSE /\ Cardinality(hits) = 1
                    /\ \A j \in hits : scan[j] = writes[LastOk(k)].row

\* an Upsert overwrote a stored key and a later Insert of a stored key failed
C1_Witness ==
    /\ pc = "failed"
    /\ \E i \in 1..Len(writes) :
          /\ TagOfWrite(writes[i]) = NAME_UPSERT
          /\ writes[i].ok
          /\ Stored(Replay(writes, i - 1), writes[i].row.id)
    /\ TagOfWrite(writes[Len(writes)]) = NAME_INSERTION
    /\ ~writes[Len(writes)].ok

\* C2: building a plan tree leaves storage as it was, and storage changes
\* only in a step in which the stream of a mutation node is pulled.
C2_MutationIsLazy ==
    [][ /\ (pc \in {"start", "loop"}) => (storage' = storage)
        /\ (storage' # storage) =>
              /\ pc = "running"
              /\ \E d \in 1..Root :
                    /\ Plan[d].kind \in MutationVariants
                    /\ pulls'[d] > pulls[d] ]_vars

\* a tree with a mutation clause was built over a non-empty table without
\* touching it, and pulling its stream then changed the table
C2_Witness ==
    /\ pc = "running"
    /\ HasMutation(ret.node)
    /\ Len(out) = 1
    /\ storage # storage0

Min(a, b) == IF a <= b THEN a ELSE b
Max(a, b) == IF a >= b THEN a ELSE b
NClauses == Len(pair.clauses)
\* the stream of the pipeline below the last two clauses, over the table as
\* the query found it
Upstream ==
    LET P == SubSeq(Plan, 1, Root - 2) IN DrainRows(P, Fresh(P, storage0))
EndsInSkipTake ==
    /\ NClauses >= 3
    /\ pair.clauses[NClauses - 1].tag = NAME_SKIP
    /\ pair.clauses[NClauses].tag = NAME_TAKE

\* C3: Skip(a).Take(b) over an upstream stream of N rows yields exactly
\* max(0, min(b, N - a)) rows: the upstream rows a+1 .. a+min(b, N-a), in order.
C3_SkipTake ==
    (pc = "exhausted" /\ EndsInSkipTake) =>
        LET a == pair.clauses[NClauses - 1].n
            b == pair.clauses[NClauses].n
            N == Len(Upstream)
        IN /\ Len(out) = Max(0, Min(b, N - a))
           /\ \A i \in 1..Len(out) : out[i] = Elem(Upstream[a + i])

\* a row was skipped and the row after it was taken
C3_Witness ==
    /\ pc = "exhausted"
    /\ EndsInSkipTake
    /\ pair.clauses[NClauses - 1].n >= 1
    /\ Len(Upstream) >= 2
    /\ Len(out) >= 1

\* C4: the number of elements pulled from the source of a Take(n) node is
\* never more than n.
C4_TakeStopsPulling ==
    \A d \in 2..Len(pulls) :
        pair.clauses[d].tag = NAME_TAKE => pulls[d - 1] <= pair.clauses[d].n

\* Take(n) ended its stream with rows left in its source
C4_Witness ==
    /\ pc = "exhausted"
    /\ NClauses = 2
    /\ pair.clauses[2].tag = NAME_TAKE
    /\ pair.clauses[2].n >= 1
    /\ pulls[1] = pair.clauses[2].n
    /\ Len(ScanAll(storage0)) > pair.clauses[2].n

\* C5: when a node produces a failed element, the element the root stream
\* yields in that pull is that failure, only rows precede it, and the stream
\* is not pulled again.
C5_FailurePropagates ==
    /\ raised # NoElem =>
          /\ pc = "failed"
          /\ Len(out) >= 1
          /\ out[Len(out)] = raised
          /\ \A i \in 1..(Len(out) - 1) : out[i].tag = "ok"
    /\ pc = "failed" => ~ENABLED Pull

\* an Insert below a filter failed after the filter had yielded a row
C5_Witness ==
    /\ pc = "failed"
    /\ Plan[Root].kind = "WhereFilter"
    /\ Plan[Root - 1].kind = "Insertion"
    /\ Len(out) = 2
    /\ raised.err = "KeyConflict"

\* the constructor result of clause i on the node it is handed, as
\* Insertion::build .. WalkOp::build give it
Failing(i) == calls[i].res.status = "err"

\* C6: if the constructor of a clause fails, build_relational_expr returns
\* that error and no plan node: no constructor is called after the failing
\* one and the nodes built before it are not returned.
C6_BuildErrorAborts ==
    \A i \in 1..Len(calls) :
        Failing(i) =>
            /\ i = Len(calls)
            /\ pc = "returned"
            /\ ret = Err(calls[i].res.err)
            /\ ret.node = NoNode
            /\ built = NoNode

\* the constructor of the second clause failed after the first had built a node
C6_Witness ==
    /\ Len(calls) = 2
    /\ ~Failing(1)
    /\ Failing(2)
    /\ pc = "returned"

Finished == pc \in {"returned", "panicked"}
AllRecognized == \A i \in 1..NClauses : pair.clauses[i].tag \in RecognizedTags
NoneFailed == \A i \in 1..Len(calls) : ~Failing(i)

\* C7: for a non-empty chain c1..cn of recognized tags whose constructors
\* all succeed, the constructors are called in the order c1..cn, c1's with no
\* previous node and ci's with the node built for c(i-1), and the node built
\* for cn is returned.
C7_ChainThreading ==
    (Finished /\ Unwrap(pair).rule = "ra_expr" /\ NClauses >= 1 /\ AllRecognized
        /\ NoneFailed) =>
        /\ pc = "returned"
        /\ Len(calls) = NClauses
        /\ \A i \in 1..NClauses : calls[i].tag = pair.clauses[i].tag
        /\ calls[1].prev = NoNode
        /\ \A i \in 2..NClauses : calls[i].prev = calls[i - 1].res.node
        /\ ret = Ok(calls[NClauses].res.node)

\* a two-clause chain was built and its root wraps the first clause's node
C7_Witness ==
    /\ pc = "returned"
    /\ ret.status = "ok"
    /\ NClauses = 2
    /\ ret.node.kind = "WhereFilter"
    /\ ret.node.source.kind = "TableScan"

\* C8: when the loop reaches a clause whose tag is not a recognized clause
\* name, the build panics: it returns neither a plan node nor an error.
C8_UnknownTagPanics ==
    [][ (pc = "loop" /\ idx < NClauses
            /\ pair.clauses[idx + 1].tag \notin RecognizedTags) =>
          (pc' = "panicked" /\ ret' = NoResult /\ built' = NoNode) ]_vars

\* an unrecognized tag was reached after a clause had been built
C8_Witness ==
    /\ pc = "panicked"
    /\ Len(calls) = 1
    /\ NClauses = 2
    /\ pair.clauses[2].tag = UnknownTag
    /\ ret = NoResult

IsFromWhere(tag) ==
    /\ NClauses = 3
    /\ pair.clauses[1].tag = NAME_FROM
    /\ pair.clauses[2].tag = NAME_WHERE
    /\ pair.clauses[3].tag = tag
Matched(k) == Stored(storage0, k) /\ Holds(pair.clauses[2].pred, RowAt(storage0, k))

\* C9: after From(t).Where(p).Delete() is pulled to completion the table
\* holds exactly the rows that did not satisfy p, unchanged, and the rows
\* emitted are exactly the rows that satisfied p.
C9_DeleteFiltered ==
    (pc = "exhausted" /\ IsFromWhere(NAME_DELETE)) =>
        /\ \A k \in Keys :
              storage[k] = IF Matched(k) THEN Absent ELSE storage0[k]
        /\ {out[i] : i \in 1..Len(out)}
              = {Elem(RowAt(storage0, k)) : k \in {x \in Keys : Matched(x)}}
        /\ Len(out) = Cardinality({k \in Keys : Matched(k)})

\* some rows were deleted and some were left
C9_Witness ==
    /\ pc = "exhausted"
    /\ IsFromWhere(NAME_DELETE)
    /\ Len(out) >= 1
    /\ storage # EmptyStorage

Named(f) == pair.clauses[3].tmpl[f] # Keep

AggregateWhere(i) ==
    /\ calls[i].tag = NAME_WHERE
    /\ IsAggregate(pair.clauses[i].pred)
    /\ calls[i].prev # NoNode
NoGroup == \A j \in 1..NClauses : pair.clauses[j].tag # NAME_GROUP

\* C11: in a chain with no Group clause, the constructor of a Where clause
\* whose predicate holds an aggregate fails with AggregateFnNotAllowed.
C11_AggregateRejected ==
    \A i \in 1..Len(calls) :
        AggregateWhere(i) /\ NoGroup => calls[i].res = Err("AggregateFnNotAllowed")

(***************************************************************************)
(* Stream origins                                                          *)
(***************************************************************************)
OriginTags ==
    {NAME_TAGGED_INSERTION, NAME_TAGGED_UPSERT, NAME_RELATION_FROM_VALUES,
     NAME_FROM, NAME_WALK}
InsertionTags == {NAME_INSERTION, NAME_UPSERT}
Built(i) == calls[i].res.status = "ok"
\* the node the clause of call i builds when nothing precedes it
BuiltAlone(i) == Construct(MatchArm(calls[i].tag), NoNode, pair.clauses[i])
IgnoresPrevious(i) ==
    /\ Sources(calls[i].res.node) = <<>>
    /\ calls[i].res = BuiltAlone(i)

InitKeyword ==
    /\ InitPlan({Expr(<<>>)}, {EmptyStorage}, "idle")
    /\ text \in SeqsUpTo(Bytes, MaxText)
    /\ kw = NoKeyword
    /\ shown = <<>>
    /\ back = NoKeyword
    /\ kpc = "text"
SpecKeyword == InitKeyword /\ [][KeywordNext]_vars

\* C13 as stated: the stored text of a keyword converted from text or bytes
\* never begins with ':'.
C13_NoLeadingSigil ==
    kpc = "converted" => ~StartsWith(kw.text, Sigil)

\* C13: a keyword converted from text or bytes stores the input with one
\* leading ':' removed when the input has one, and the input as it is
\* otherwise; its stored text begins with ':' only when the input begins
\* with '::'.
C13_OneSigilStripped ==
    kpc = "converted" =>
        /\ kw.status = "ok"
        /\ IF StartsWith(text, Sigil) THEN <<Sigil>> \o kw.text = text ELSE kw.text = text
        /\ StartsWith(kw.text, Sigil) =>
                Len(text) >= 2 /\ text[1] = Sigil /\ text[2] = Sigil

\* an input with two leading sigils was converted
C13_Witness ==
    /\ kpc = "converted"
    /\ StartsWith(text, Sigil)
    /\ StartsWith(kw.text, Sigil)

\* C15: a keyword read back from its Display form is the keyword that was
\* displayed, also when its stored text is empty or begins with ':'.
C15_DisplayRoundTrip ==
    kpc = "reparsed" => back = kw

\* a keyword whose stored text begins with ':' was displayed and read back
C15_Witness ==
    /\ kpc = "reparsed"
    /\ StartsWith(kw.text, Sigil)
    /\ Len(shown) = Len(kw.text) + 1

(***************************************************************************)
(* Delete under Take                                                       *)
(***************************************************************************)
EndsInDeleteTake ==
    /\ NClauses >= 3
    /\ pair.clauses[NClauses - 1].tag = NAME_DELETE
    /\ pair.clauses[NClauses].tag = NAME_TAKE
Removed == {k \in Keys : Stored(storage0, k) /\ ~Stored(storage, k)}

\* C14: when a Delete over a source of N rows is directly followed by
\* Take(n) and the root stream was pulled to its end, exactly min(n, N) rows
\* are gone from the table, the first min(n, N) of the source, and every
\* other row is stored as it was.
C14_DeleteUnderTake ==
    (pc = "exhausted" /\ EndsInDeleteTake) =>
        LET n == pair.clauses[NClauses].n
            N == Len(Upstream)
            m == Min(n, N)
        IN /\ Cardinality(Removed) = m
           /\ Removed = {Upstream[i].id : i \in 1..m}
           /\ \A i \in (m + 1)..N : RowAt(storage, Upstream[i].id) = Upstream[i]
           /\ \A k \in Keys \ Removed : storage[k] = storage0[k]

\* Take(n) ended the stream after Delete removed some of its source's rows
\* and before it removed the others
C14_Witness ==
    /\ pc = "exhausted"
    /\ EndsInDeleteTake
    /\ pair.clauses[NClauses].n >= 1
    /\ Len(Upstream) > pair.clauses[NClauses].n
    /\ Removed # {}

====
